---- MODULE Spec2Model ----
(***************************************************************************)
(* Model of the azure-easy-auth-local Express middleware                   *)
(* (src/azure-easy-auth-local.js).                                         *)
(*                                                                         *)
(* One middleware instance, configured with (azureHost, localPort), is     *)
(* invoked once per inbound request.  An invocation runs to completion on  *)
(* the event loop: it either finishes the exchange at once (redirect,      *)
(* preflight, pass-through, missing-cookie rejection) or issues the        *)
(* outbound axios call and leaves the exchange pending until that call     *)
(* settles.  Any number of exchanges may be pending at once.               *)
(*                                                                         *)
(* JavaScript strings that the code indexes (req.url) are sequences of     *)
(* one-character strings; strings that are only concatenated or compared   *)
(* are TLA+ strings.                                                       *)
(***************************************************************************)
EXTENDS Bags, FiniteSets, Integers, Sequences, TLC

VARIABLES
    pending,    \* bag of exchanges whose outbound call has not settled yet
    done,       \* the exchange that reached its terminal action last
    silent,     \* bag of exchanges whose outbound call will never settle
    asked,      \* number of GET /auth/* requests with a session cookie so far
    issued      \* number of outbound axios calls made so far

vars == <<pending, done, silent, asked, issued>>

----------------------------------------------------------------------------
(* Bounds *)

\* Number of requests that reach the outbound call in one behaviour, hence
\* also the largest number of outbound calls in flight at the same time.
\* Requests that make no outbound call are not limited.
MaxReqs == 2

----------------------------------------------------------------------------
(* Program constants and configuration *)

APPLICATION_JSON == "application/json"

APP_SERVICE_AUTH_SESSION == "AppServiceAuthSession"

DEV_MODE_ERR_MSG == "It looks like you are in development mode and are probably running on your localhost. You must first sign into your Azure web site so the appropriate cookies are set. In production mode, when running on Azure, you would have automatically been redirected to the login page."

\* The two arguments of middleware(azureHost, localPort), captured by the
\* returned closure (values of the README's example).
AzureHost ==
    <<"m", "y", "a", "p", "p", ".", "a", "z", "u", "r", "e",
      "w", "e", "b", "s", "i", "t", "e", "s", ".", "n", "e", "t">>

LocalPort == 45608

----------------------------------------------------------------------------
(* JavaScript values *)

\* The value of a property that is not there.
Undefined == "<undefined>"

\* !v for a string-or-undefined v.
Falsy(v) == v = Undefined \/ v = ""

\* String.prototype.startsWith
startsWith(s, prefix) ==
    /\ Len(s) >= Len(prefix)
    /\ SubSeq(s, 1, Len(prefix)) = prefix

\* String.prototype.substr(start) with 0 <= start
substr(s, start) == SubSeq(s, start + 1, Len(s))

\* The string made of the characters of s (template-literal interpolation).
RECURSIVE Join(_)
Join(s) == IF s = <<>> THEN "" ELSE Head(s) \o Join(Tail(s))

\* The message V8 gives the TypeError thrown by an assignment to a const.
ConstAssignMsg == "Assignment to constant variable."

\* new Error(message) with err.code = code
ErrorWithCode(message, code) ==
    [name |-> "Error", message |-> message, code |-> code]

\* The TypeError thrown by an assignment to a const binding: it has no code.
ConstAssignTypeError == [name |-> "TypeError", message |-> ConstAssignMsg]

\* JSON.stringify of the bodies the upstream returns.
Stringify(data) == "{\"access_token\":\"" \o data.access_token \o "\"}"

----------------------------------------------------------------------------
(* Path literals *)

DotAuthPrefix == <<"/", ".", "a", "u", "t", "h", "/">>

\* AuthPrefix without its trailing slash.
AuthPrefixNoSlash == <<"/", "a", "u", "t", "h">>

AuthPrefix == <<"/", "a", "u", "t", "h", "/">>

Https == <<"h", "t", "t", "p", "s", ":", "/", "/">>

----------------------------------------------------------------------------
(* The Express response object *)

ACAC == "Access-Control-Allow-Credentials"

ACAO == "Access-Control-Allow-Origin"

ACAM == "Access-Control-Allow-Methods"

CorsHeaderNames == {ACAC, ACAO, ACAM}

HeaderNames == CorsHeaderNames \cup {"Content-Length", "Content-Type", "Location"}

\* The value of a header that was never set.
Unset == "<unset>"

\* A response nothing has been written to: Node's default status is 200.
InitRes ==
    [statusCode  |-> 200,
     headers     |-> [h \in HeaderNames |-> Unset],
     body        |-> "",
     headersSent |-> FALSE,
     finished    |-> FALSE,
     ends        |-> 0]            \* how often the response was ended

\* res.set(name, value): the header goes out with the response head, so it
\* only counts while the head has not been sent.
res_set(res, name, value) ==
    IF res.headersSent THEN res ELSE [res EXCEPT !.headers[name] = value]

\* res.status(code)
res_status(res, code) ==
    IF res.headersSent THEN res ELSE [res EXCEPT !.statusCode = code]

\* res.end(): sends the head and finishes the response with no more body.
res_end(res) ==
    [res EXCEPT !.headersSent = TRUE, !.finished = TRUE, !.ends = @ + 1]

\* res.json(data): serialises data, sets the content type, sends and ends.
res_json(res, data) ==
    res_end([res_set(res, "Content-Type", APPLICATION_JSON)
                EXCEPT !.body = Stringify(data)])

\* res.redirect(status, url): status, Location header, short body, end.
res_redirect(res, status, url) ==
    res_end([res_set(res_status(res, status), "Location", url)
                EXCEPT !.body = "Found. Redirecting to " \o url])

----------------------------------------------------------------------------
(* Exchanges: one inbound request with its response, its next callback and *)
(* the outbound calls made for it                                          *)

NoResult == [kind |-> "none"]

NewExchange(req) ==
    [state    |-> "new",
     req      |-> req,
     res      |-> InitRes,
     nexts    |-> <<>>,          \* the calls of next, in order
     calls    |-> <<>>,          \* the outbound calls, in order
     upstream |-> NoResult]      \* how the outbound call settled

\* next()
next(x) ==
    [x EXCEPT !.nexts = Append(@, [arg |-> "none"]), !.state = "done"]

\* next(err)
nextErr(x, err) ==
    [x EXCEPT !.nexts = Append(@, [arg |-> "error", err |-> err]),
              !.state = "done"]

----------------------------------------------------------------------------
(* proxyRequest *)

\* const session = req.cookies[APP_SERVICE_AUTH_SESSION]
SessionOf(req) == req.cookies[APP_SERVICE_AUTH_SESSION]

\* UpstreamUrl that does not put the dot back.
UpstreamUrlNoDot(host, url) == Https \o host \o <<"/">> \o substr(url, 1)

\* `https://${host}/.${req.url.substr(1)}`
UpstreamUrl(host, url) == Https \o host \o <<"/", ".">> \o substr(url, 1)

\* AxiosCall that forwards every inbound cookie.
AxiosCallForwardsCookies(req, host, session) ==
    [method  |-> "GET",
     url     |-> Join(UpstreamUrl(host, req.url)),
     headers |-> [Accept |-> APPLICATION_JSON,
                  Cookie |-> APP_SERVICE_AUTH_SESSION \o "=" \o session
                               \o (IF req.cookies["other"] = Undefined
                                     THEN ""
                                     ELSE "; other=" \o req.cookies["other"])]]

\* The argument object of the axios call.
AxiosCall(req, host, session) ==
    [method  |-> "GET",
     url     |-> Join(UpstreamUrl(host, req.url)),
     headers |-> [Accept |-> APPLICATION_JSON,
                  Cookie |-> APP_SERVICE_AUTH_SESSION \o "=" \o session]]

\* .then(response => response.data)
proxyThen(response) == response.data

\* proxyCatch that takes every 3xx status for a login redirect.
proxyCatchAnyRedirect(err) ==
    LET code == IF "response" \in DOMAIN err THEN err.response.status ELSE 500
    IN  IF code >= 300 /\ code < 400
          THEN ErrorWithCode(DEV_MODE_ERR_MSG, 401)
          ELSE ErrorWithCode(err.message, code)

\* proxyCatch that reads err.response.status without testing err.response.
proxyCatchUnguarded(err) ==
    IF "response" \in DOMAIN err
      THEN IF err.response.status = 302
             THEN ConstAssignTypeError
             ELSE ErrorWithCode(err.message, err.response.status)
      ELSE [name |-> "TypeError",
            message |-> "Cannot read property 'status' of undefined"]

\* .catch(err => ...): the reason the returned promise is rejected with.
\* `code` is declared const, so the assignment code = 401 of the 302 branch
\* throws a TypeError out of the handler before err is rebuilt; the promise
\* is then rejected with that TypeError.
proxyCatch(err) ==
    LET code == IF "response" \in DOMAIN err THEN err.response.status ELSE 500
    IN  IF code = 302
          THEN ConstAssignTypeError
          ELSE ErrorWithCode(err.message, code)

\* proxyRequest without the check of the session cookie.
proxyRequestUnchecked(req, host) ==
    [kind |-> "pending", call |-> AxiosCall(req, host, SessionOf(req))]

\* The synchronous part of proxyRequest(req, host): a promise that is
\* already rejected (no session cookie) or the axios call that was issued.
proxyRequest(req, host) ==
    LET session == SessionOf(req)
    IN  IF Falsy(session)
          THEN [kind |-> "rejected",
                err  |-> ErrorWithCode(
                           "No " \o APP_SERVICE_AUTH_SESSION \o " cookie in request.",
                           400)]
          ELSE [kind |-> "pending", call |-> AxiosCall(req, host, session)]

\* How the promise returned by proxyRequest settles once axios has settled
\* with `result`.
proxySettle(result) ==
    IF result.kind = "fulfilled"
      THEN [kind |-> "fulfilled", data |-> proxyThen(result.response)]
      ELSE [kind |-> "rejected", err |-> proxyCatch(result.err)]

----------------------------------------------------------------------------
(* corsHeaders *)

corsHeaders(res, port) ==
    LET r1 == res_set(res, ACAC, "true")
        r2 == res_set(r1, ACAO, "http://localhost:" \o ToString(port))
    IN  res_set(r2, ACAM, "GET, OPTIONS")

----------------------------------------------------------------------------
(* middleware: the function returned by middleware(azureHost, localPort) *)

\* RedirectTarget with the dot left in the path (substr(1) for substr(2)).
RedirectTargetKeepsDot(azureHost, url) ==
    Https \o azureHost \o <<"/">> \o substr(url, 1)

\* `https://${azureHost}/${url.substr(2)}`
RedirectTarget(azureHost, url) == Https \o azureHost \o <<"/">> \o substr(url, 2)

\* handleRedirect with the CORS headers set before the redirect.
handleRedirectWithCors(x) ==
    [x EXCEPT !.res = res_redirect(corsHeaders(@, LocalPort), 302,
                                   Join(RedirectTarget(AzureHost, x.req.url))),
              !.state = "done"]

\* res.redirect(302, ...)
handleRedirect(x) ==
    [x EXCEPT !.res = res_redirect(@, 302, Join(RedirectTarget(AzureHost, x.req.url))),
              !.state = "done"]

\* onFulfilled with the body sent before the CORS headers are set.
onFulfilledSendsFirst(x, data) ==
    [x EXCEPT !.res = corsHeaders(res_json(@, data), LocalPort),
              !.state = "done"]

\* onFulfilled that writes to the response of the exchange served last, as
\* a handler keeping res in a variable shared by all requests would.
onFulfilledSharedRes(x, data) ==
    [x EXCEPT !.res = res_json(corsHeaders(done.res, LocalPort), data),
              !.state = "done"]

\* onFulfilled that goes on to the next handler after sending the body.
onFulfilledCallsNext(x, data) ==
    next([x EXCEPT !.res = res_json(corsHeaders(@, LocalPort), data)])

\* .then(data => { corsHeaders(res, localPort); res.json(data); })
onFulfilled(x, data) ==
    [x EXCEPT !.res = res_json(corsHeaders(@, LocalPort), data),
              !.state = "done"]

\* onRejected that sets the CORS headers before it hands the error on.
onRejectedWithCors(x, err) ==
    nextErr([x EXCEPT !.res = corsHeaders(@, LocalPort)], err)

\* .catch(err => { next(err); })
onRejected(x, err) == nextErr(x, err)

\* proxyRequest(req, azureHost).then(...).catch(...) up to the point where
\* the handler returns: a promise rejected at once runs the catch callback
\* before any other request is served.
handleProxy(x) ==
    LET p == proxyRequest(x.req, AzureHost)
    IN  IF p.kind = "rejected"
          THEN onRejected(x, p.err)
          ELSE [x EXCEPT !.calls = Append(@, p.call), !.state = "pending"]

\* handlePreflight that ends the response and still calls next.
handlePreflightFallsThrough(x) ==
    next([x EXCEPT !.res = res_end(res_set(res_status(corsHeaders(@, LocalPort), 204),
                                           "Content-Length", "0"))])

\* corsHeaders; res.status(204); res.set('Content-Length', '0'); res.end()
handlePreflight(x) ==
    [x EXCEPT !.res = res_end(res_set(res_status(corsHeaders(@, LocalPort), 204),
                                      "Content-Length", "0")),
              !.state = "done"]

\* middleware whose second branch does not test the method: every request
\* on /auth/* that is not a GET is answered as a preflight.
middlewareAnyMethod(req) ==
    LET x == NewExchange(req)
    IN  IF req.method = "GET"
          THEN IF startsWith(req.url, DotAuthPrefix)
                 THEN handleRedirect(x)
                 ELSE IF startsWith(req.url, AuthPrefix)
                        THEN handleProxy(x)
                        ELSE next(x)
          ELSE IF startsWith(req.url, AuthPrefix)
                 THEN handlePreflight(x)
                 ELSE next(x)

\* function(req, res, next), up to its return.
middleware(req) ==
    LET x == NewExchange(req)
    IN  IF req.method = "GET"
          THEN IF startsWith(req.url, DotAuthPrefix)
                 THEN handleRedirect(x)
                 ELSE IF startsWith(req.url, AuthPrefix)
                        THEN handleProxy(x)
                        ELSE next(x)
          ELSE IF req.method = "OPTIONS" /\ startsWith(req.url, AuthPrefix)
                 THEN handlePreflight(x)
                 ELSE next(x)

\* settle that tries the upstream a second time when the call failed.
settleRetries(x, result) ==
    LET p == proxySettle(result)
        y == [x EXCEPT !.upstream = result]
    IN  IF p.kind = "fulfilled"
          THEN onFulfilled(y, p.data)
          ELSE onRejected([y EXCEPT !.calls = Append(@, x.calls[1])], p.err)

\* settle whose catch callback drops the error instead of calling next.
settleSwallowsError(x, result) ==
    LET p == proxySettle(result)
        y == [x EXCEPT !.upstream = result]
    IN  IF p.kind = "fulfilled"
          THEN onFulfilled(y, p.data)
          ELSE [y EXCEPT !.state = "done"]

\* The rest of the promise chain of a pending exchange, run when its axios
\* call settles with `result`.
settle(x, result) ==
    LET p == proxySettle(result)
        y == [x EXCEPT !.upstream = result]
    IN  IF p.kind = "fulfilled"
          THEN onFulfilled(y, p.data)
          ELSE onRejected(y, p.err)

----------------------------------------------------------------------------
(* Inputs *)

Methods == {"GET", "OPTIONS", "POST"}

Paths ==
    { <<"/">>,
      <<"/", "o">>,
      <<"/", ".", "a", "u", "t", "h">>,
      <<"/", "a", "u", "t", "h">>,
      <<"/", ".", "a", "u", "t", "h", "x">>,
      <<"/", "a", "u", "t", "h", "o", "r", "s">>,
      <<"/", ".", "a", "u", "t", "h", "/">>,
      <<"/", "a", "u", "t", "h", "/">>,
      <<"/", ".", "a", "u", "t", "h", "/", "m", "e">>,
      <<"/", "a", "u", "t", "h", "/", "m", "e">>,
      <<"/", ".", "a", "u", "t", "h", "/", ".", "m", "e">>,
      <<"/", "x", "/", "a", "u", "t", "h", "/", "m", "e">> }

CookieNames == {APP_SERVICE_AUTH_SESSION, "other"}

\* req.cookies, the mapping the cookie parser built from the Cookie header:
\* no cookie at all, only an unrelated cookie, a session cookie with an
\* empty value, a session cookie, a session cookie beside another cookie.
CookieJars ==
    { [n \in CookieNames |-> Undefined],
      [n \in CookieNames |-> IF n = APP_SERVICE_AUTH_SESSION THEN Undefined ELSE "o"],
      [n \in CookieNames |-> IF n = APP_SERVICE_AUTH_SESSION THEN "" ELSE Undefined],
      [n \in CookieNames |-> IF n = APP_SERVICE_AUTH_SESSION THEN "s1" ELSE Undefined],
      [n \in CookieNames |-> IF n = APP_SERVICE_AUTH_SESSION THEN "s2" ELSE "o"] }

Requests == [method : Methods, url : Paths, cookies : CookieJars]

JsonBodies == {[access_token |-> "abc"], [access_token |-> "xyz"]}

\* Statuses axios rejects with (anything outside 2xx).
FailureStatuses == {301, 302, 303, 307, 403}

UpstreamMessages == {"Request failed", "Network Error"}

\* Every way the axios promise can settle: a 2xx response with its decoded
\* body, an error with a response, an error with no response at all.
UpstreamResults ==
    {[kind |-> "fulfilled", response |-> [status |-> 200, data |-> d]] :
        d \in JsonBodies}
    \cup
    {[kind |-> "rejected", err |-> [message |-> m, response |-> [status |-> s]]] :
        m \in UpstreamMessages, s \in FailureStatuses}
    \cup
    {[kind |-> "rejected", err |-> [message |-> m]] : m \in UpstreamMessages}

----------------------------------------------------------------------------
(* The state machine *)

\* No request has been served yet.
NoExchange ==
    [state    |-> "none",
     req      |-> [method |-> "", url |-> <<>>,
                   cookies |-> [n \in CookieNames |-> Undefined]],
     res      |-> InitRes,
     nexts    |-> <<>>,
     calls    |-> <<>>,
     upstream |-> NoResult]

Init ==
    /\ pending = EmptyBag
    /\ done = NoExchange
    /\ silent = EmptyBag
    /\ asked = 0
    /\ issued = 0

\* middleware(req) for every request of the model, tabulated.
Served == [req \in Requests |-> middleware(req)]

\* The request is a GET on /auth/* that carries a session cookie.
AsksUpstream(req) ==
    /\ req.method = "GET"
    /\ startsWith(req.url, AuthPrefix)
    /\ ~Falsy(SessionOf(req))

\* The inbound request req arrives and the middleware function runs to its
\* return.
Serve(req) ==
    LET x == Served[req]
    IN  /\ asked' = asked + (IF AsksUpstream(req) THEN 1 ELSE 0)
        /\ asked' <= MaxReqs
        /\ issued' = issued + Len(x.calls)
        /\ IF x.state = "pending"
             THEN /\ pending' = pending (+) SetToBag({x})
                  /\ UNCHANGED done
             ELSE /\ done' = x
                  /\ UNCHANGED pending
        /\ UNCHANGED silent

\* An inbound request arrives.
Receive == \E req \in Requests : Serve(req)

\* The axios call of the pending exchange x settles and the promise chain
\* runs.
SettleOne(x) ==
    /\ x \in BagToSet(pending)
    /\ \E result \in UpstreamResults :
           /\ pending' = pending (-) SetToBag({x})
           /\ done' = settle(x, result)
           /\ issued' = issued + (Len(done'.calls) - Len(x.calls))
    /\ UNCHANGED <<silent, asked>>

\* The axios call of a pending exchange settles.
Settle == \E x \in BagToSet(pending) : SettleOne(x)

Next == Receive \/ Settle

Spec == Init /\ [][Next]_vars

----------------------------------------------------------------------------
(* Behaviours in which an upstream may stay silent for ever *)

\* The requests that reach the outbound call.
UpstreamRequests == {req \in Requests : Served[req].state = "pending"}

\* The exchanges that can be in flight.
InFlightExchanges == {Served[req] : req \in UpstreamRequests}

\* A request that reaches the outbound call arrives.
ReceiveUpstream == \E req \in UpstreamRequests : Serve(req)

\* The upstream of a pending exchange will never answer: axios is called
\* without a timeout, so its promise stays unsettled and no callback of the
\* exchange ever runs.
GoSilent ==
    \E x \in BagToSet(pending) :
        /\ pending' = pending (-) SetToBag({x})
        /\ silent' = silent (+) SetToBag({x})
        /\ UNCHANGED <<done, asked, issued>>

LiveNext == ReceiveUpstream \/ Settle \/ GoSilent

\* The event loop runs the callbacks of every axios promise that settles; a
\* pending exchange is one whose upstream has not been given up on.
LiveSpec ==
    /\ Init
    /\ [][LiveNext]_vars
    /\ \A x \in InFlightExchanges : WF_vars(SettleOne(x))

----------------------------------------------------------------------------
(* Vocabulary of the properties *)

\* The path p with the dot after its first slash taken out.
WithoutDot(p) == <<p[1]>> \o SubSeq(p, 3, Len(p))

IsRedirectRequest(req) == req.method = "GET" /\ startsWith(req.url, DotAuthPrefix)

IsProxyRequest(req) == req.method = "GET" /\ startsWith(req.url, AuthPrefix)

IsPreflightRequest(req) == req.method = "OPTIONS" /\ startsWith(req.url, AuthPrefix)

HasSession(req) ==
    /\ req.cookies[APP_SERVICE_AUTH_SESSION] # Undefined
    /\ req.cookies[APP_SERVICE_AUTH_SESSION] # ""

\* The exchange ended with exactly one call next(err).
HandedError(x) == Len(x.nexts) = 1 /\ x.nexts[1].arg = "error"

\* The upstream call of the exchange failed with an HTTP response of status s.
UpstreamAnswered(x, s) ==
    /\ x.upstream.kind = "rejected"
    /\ "response" \in DOMAIN x.upstream.err
    /\ x.upstream.err.response.status = s

\* The response carries the three CORS headers with their values.
CarriesCors(res) ==
    /\ res.headers[ACAC] = "true"
    /\ res.headers[ACAO] = "http://localhost:45608"
    /\ res.headers[ACAM] = "GET, OPTIONS"

\* None of the three CORS headers is set on the response.
CarriesNoCors(res) == \A h \in CorsHeaderNames : res.headers[h] = Unset

----------------------------------------------------------------------------
(* Properties *)

\* C1: when the upstream answers the proxied call of a GET /auth/* request
\* (session cookie present) with status 302, the error handed to next carries
\* code 401 and the message DEV_MODE_ERR_MSG.
C1_LoginRedirectBecomes401 ==
    (IsProxyRequest(done.req) /\ HasSession(done.req) /\ UpstreamAnswered(done, 302))
        => /\ HandedError(done)
           /\ "code" \in DOMAIN done.nexts[1].err
           /\ done.nexts[1].err.code = 401
           /\ done.nexts[1].err.message = DEV_MODE_ERR_MSG

\* C2: a GET on a path p starting with /.auth/ is answered with a 302 whose
\* Location is https://{azureHost} followed by p without the dot after the
\* first slash; no outbound call is made and next is not called.
C2_RedirectTarget ==
    IsRedirectRequest(done.req)
        => /\ done.res.statusCode = 302
           /\ done.res.headers["Location"]
                  = Join(Https \o AzureHost \o WithoutDot(done.req.url))
           /\ done.res.finished
           /\ done.calls = <<>>
           /\ done.nexts = <<>>

C2_Witness ==
    /\ done.req.method = "GET"
    /\ done.req.url = <<"/", ".", "a", "u", "t", "h", "/", "m", "e">>
    /\ done.res.statusCode = 302
    /\ done.res.headers["Location"] = "https://myapp.azurewebsites.net/auth/me"
    /\ done.res.finished

\* C3: a GET on a path starting with /auth/ without a session cookie (no
\* cookie at all included) hands an error with code 400 to next and makes no
\* outbound call.
C3_MissingSession ==
    (IsProxyRequest(done.req) /\ ~HasSession(done.req))
        => /\ HandedError(done)
           /\ "code" \in DOMAIN done.nexts[1].err
           /\ done.nexts[1].err.code = 400
           /\ done.calls = <<>>
           /\ done.upstream = NoResult

C3_Witness ==
    /\ IsProxyRequest(done.req)
    /\ \A n \in CookieNames : done.req.cookies[n] = Undefined
    /\ HandedError(done)
    /\ done.nexts[1].err.code = 400
    /\ done.calls = <<>>

\* C4: a GET on a path starting with /auth/ with the session cookie whose
\* upstream call succeeds yields status 200, the upstream JSON as body and
\* the three CORS headers, set before the response is sent; next is not
\* called.
C4_ProxySuccess ==
    (IsProxyRequest(done.req) /\ done.upstream.kind = "fulfilled")
        => /\ HasSession(done.req)
           /\ done.res.statusCode = 200
           /\ done.res.body = Stringify(done.upstream.response.data)
           /\ CarriesCors(done.res)
           /\ done.res.finished
           /\ done.nexts = <<>>

C4_Witness ==
    /\ IsProxyRequest(done.req)
    /\ done.upstream.kind = "fulfilled"
    /\ done.upstream.response.data = [access_token |-> "abc"]
    /\ done.res.statusCode = 200
    /\ done.res.body = "{\"access_token\":\"abc\"}"
    /\ CarriesCors(done.res)

\* C5 (as claimed): the 302 answer to GET /.auth/* carries the three CORS
\* headers, as proxy-success and preflight responses do.
C5_RedirectCarriesCors ==
    IsRedirectRequest(done.req) => CarriesCors(done.res)

\* C5 (amended): the 302 answer to GET /.auth/* carries none of the three
\* CORS headers; proxy-success and preflight responses carry all three.
C5_RedirectCarriesNoCors ==
    /\ IsRedirectRequest(done.req) => CarriesNoCors(done.res)
    /\ (IsProxyRequest(done.req) /\ done.upstream.kind = "fulfilled")
           => CarriesCors(done.res)
    /\ IsPreflightRequest(done.req) => CarriesCors(done.res)

C5_Witness ==
    /\ IsRedirectRequest(done.req)
    /\ done.res.statusCode = 302
    /\ done.res.finished
    /\ CarriesNoCors(done.res)

C7_Preflight ==
    IsPreflightRequest(done.req)
        => /\ done.res.statusCode = 204
           /\ done.res.headers["Content-Length"] = "0"
           /\ done.res.body = ""
           /\ CarriesCors(done.res)
           /\ done.res.finished
           /\ done.nexts = <<>>
           /\ done.calls = <<>>

C7_Witness ==
    /\ done.req.method = "OPTIONS"
    /\ done.req.url = <<"/", "a", "u", "t", "h", "/", "m", "e">>
    /\ done.res.statusCode = 204
    /\ done.res.headers["Content-Length"] = "0"
    /\ done.res.finished

\* C8: a request that is neither GET /.auth/*, GET /auth/* nor OPTIONS
\* /auth/* is handed to next() without an error, with nothing written to
\* the response and no outbound call.
C8_PassThrough ==
    (/\ done.state = "done"
     /\ ~IsRedirectRequest(done.req)
     /\ ~IsProxyRequest(done.req)
     /\ ~IsPreflightRequest(done.req))
        => /\ done.nexts = <<[arg |-> "none"]>>
           /\ done.res = InitRes
           /\ done.calls = <<>>

C8_Witness ==
    /\ done.state = "done"
    /\ done.req.method = "OPTIONS"
    /\ done.req.url = <<"/", ".", "a", "u", "t", "h", "/", "m", "e">>
    /\ done.nexts = <<[arg |-> "none"]>>
    /\ done.res = InitRes

\* C9: every failure of a proxied GET /auth/* (missing session, upstream
\* login redirect, other upstream status, no upstream response) reaches the
\* framework as one call next(err) whose err carries a numeric code and a
\* message, and nothing is written to the response.
C9_FailureHandedToNext ==
    (/\ IsProxyRequest(done.req)
     /\ \/ ~HasSession(done.req)
        \/ done.upstream.kind = "rejected")
        => /\ HandedError(done)
           /\ "code" \in DOMAIN done.nexts[1].err
           /\ done.nexts[1].err.code \in Nat
           /\ "message" \in DOMAIN done.nexts[1].err
           /\ done.res = InitRes

\* C10: when no upstream response is received at all for a proxied GET
\* /auth/*, the error handed to next carries code 500.
C10_NetworkErrorIs500 ==
    (/\ IsProxyRequest(done.req)
     /\ done.upstream.kind = "rejected"
     /\ "response" \notin DOMAIN done.upstream.err)
        => /\ HandedError(done)
           /\ "code" \in DOMAIN done.nexts[1].err
           /\ done.nexts[1].err.code = 500
           /\ done.nexts[1].err.message = done.upstream.err.message

C10_Witness ==
    /\ IsProxyRequest(done.req)
    /\ done.upstream.kind = "rejected"
    /\ "response" \notin DOMAIN done.upstream.err
    /\ done.upstream.err.message = "Network Error"
    /\ HandedError(done)
    /\ done.nexts[1].err.code = 500

----------------------------------------------------------------------------
(* Vocabulary of the properties about several exchanges *)

\* Every exchange the state holds.
AllExchanges == BagToSet(pending) \cup BagToSet(silent) \cup {done}

\* What the response of a successful proxy exchange looks like, given the
\* decoded upstream body.
SuccessResponse(data) ==
    [statusCode  |-> 200,
     headers     |-> [h \in HeaderNames |->
                        CASE h = ACAC -> "true"
                          [] h = ACAO -> "http://localhost:45608"
                          [] h = ACAM -> "GET, OPTIONS"
                          [] h = "Content-Type" -> "application/json"
                          [] OTHER -> Unset],
     body        |-> "{\"access_token\":\"" \o data.access_token \o "\"}",
     headersSent |-> TRUE,
     finished    |-> TRUE,
     ends        |-> 1]

\* The outbound call that belongs to the request req.
OwnCall(req) ==
    [method  |-> "GET",
     url     |-> Join(Https \o AzureHost \o <<"/", ".">> \o Tail(req.url)),
     headers |-> [Accept |-> "application/json",
                  Cookie |-> "AppServiceAuthSession="
                                 \o req.cookies["AppServiceAuthSession"]]]

\* The error the code hands to next for the upstream error e.
OwnError(e) ==
    IF "response" \notin DOMAIN e
      THEN [name |-> "Error", message |-> e.message, code |-> 500]
      ELSE IF e.response.status = 302
             THEN [name |-> "TypeError",
                   message |-> "Assignment to constant variable."]
             ELSE [name |-> "Error", message |-> e.message,
                   code |-> e.response.status]

\* The exchange x is as its own request left it: call made, nothing written.
Untouched(x) ==
    /\ x.calls = <<OwnCall(x.req)>>
    /\ x.res = InitRes
    /\ x.nexts = <<>>
    /\ x.upstream = NoResult

\* The settled exchange x shows the outcome of its own request and of its
\* own upstream result, and of nothing else.
OwnOutcome(x) ==
    /\ x.calls = <<OwnCall(x.req)>>
    /\ x.upstream.kind = "fulfilled"
           => /\ x.res = SuccessResponse(x.upstream.response.data)
              /\ x.nexts = <<>>
    /\ x.upstream.kind = "rejected"
           => /\ x.res = InitRes
              /\ x.nexts = <<[arg |-> "error", err |-> OwnError(x.upstream.err)]>>

\* The path of an https URL on the configured host.
PathOfUrl(u) == SubSeq(u, Len(Https) + Len(AzureHost) + 1, Len(u))

\* The exchange reached a terminal action of the middleware.
Terminated(x) == x.res.finished \/ Len(x.nexts) > 0

----------------------------------------------------------------------------
(* Properties, continued *)

C12_OneCallPerProxiedRequest ==
    /\ issued = asked
    /\ \A x \in AllExchanges :
           x.state # "none"
               => Len(x.calls)
                      = (IF IsProxyRequest(x.req) /\ HasSession(x.req) THEN 1 ELSE 0)

C12_Witness ==
    /\ asked = 2
    /\ issued = 2
    /\ \E x \in BagToSet(pending) :
           /\ x.req.url = <<"/", "a", "u", "t", "h", "/", "m", "e">>
           /\ CopiesIn(x, pending) = 2
           /\ Len(x.calls) = 1

\* C13: concurrent requests do not interfere: in every step, whatever the
\* order in which upstream calls settle, the exchange that finishes shows
\* the outcome of its own request and its own upstream result, and every
\* exchange still in flight stays in flight, untouched.
C13_NoInterference ==
    /\ [](/\ \A x \in BagToSet(pending) : Untouched(x)
          /\ done.upstream.kind # "none" => OwnOutcome(done))
    /\ [][\A x \in BagToSet(pending) :
              CopiesIn(x, pending')
                  >= CopiesIn(x, pending)
                       - (IF done'.req = x.req /\ done'.upstream.kind # "none"
                            THEN 1 ELSE 0)]_vars

C13_Witness ==
    /\ done.upstream.kind = "fulfilled"
    /\ done.req.cookies["AppServiceAuthSession"] = "s1"
    /\ done.calls[1].headers["Cookie"] = "AppServiceAuthSession=s1"
    /\ done.res.body = "{\"access_token\":\"abc\"}"
    /\ \E x \in BagToSet(pending) :
           /\ x.req.cookies["AppServiceAuthSession"] = "s2"
           /\ Untouched(x)

\* C14: the prefix test is literal and includes the trailing slash: a
\* request on exactly /.auth or /auth, or on /.authx or /authors, is
\* neither redirected nor proxied nor answered as a preflight, whatever its
\* method: it is passed to next().
C14_LiteralPrefix ==
    (/\ done.state = "done"
     /\ done.req.url \in { <<"/", ".", "a", "u", "t", "h">>,
                           <<"/", "a", "u", "t", "h">>,
                           <<"/", ".", "a", "u", "t", "h", "x">>,
                           <<"/", "a", "u", "t", "h", "o", "r", "s">> })
        => /\ done.nexts = <<[arg |-> "none"]>>
           /\ done.res = InitRes
           /\ done.calls = <<>>
           /\ done.upstream = NoResult

C14_Witness ==
    /\ done.state = "done"
    /\ done.req.method = "GET"
    /\ done.req.url = <<"/", "a", "u", "t", "h">>
    /\ done.req.cookies["AppServiceAuthSession"] = "s1"
    /\ done.nexts = <<[arg |-> "none"]>>
    /\ done.calls = <<>>

\* C15 (as claimed): every GET /auth/* request with the session cookie
\* eventually terminates, and one whose upstream never answers ends as a
\* network-level failure with code 500.
C15_AlwaysTerminates ==
    \A x \in InFlightExchanges :
        /\ (CopiesIn(x, pending) + CopiesIn(x, silent) > 0)
               ~> (done.req = x.req /\ Terminated(done))
        /\ (CopiesIn(x, silent) > 0)
               ~> (/\ done.req = x.req
                   /\ HandedError(done)
                   /\ "code" \in DOMAIN done.nexts[1].err
                   /\ done.nexts[1].err.code = 500)

\* C15 (amended): every GET /auth/* request with the session cookie whose
\* upstream call settles terminates, with a response or an error handed to
\* next; a request whose upstream never answers stays suspended for ever.
C15_TerminatesWhenUpstreamSettles ==
    /\ \A x \in InFlightExchanges :
           (CopiesIn(x, pending) > 0)
               ~> \/ done.req = x.req /\ Terminated(done) /\ done.upstream.kind # "none"
                  \/ CopiesIn(x, silent) > 0
    /\ [][\A x \in InFlightExchanges :
              /\ CopiesIn(x, silent') >= CopiesIn(x, silent)
              /\ \A y \in BagToSet(silent') : Untouched(y)]_vars

C15_Witness ==
    /\ BagCardinality(silent) = 1
    /\ \A y \in BagToSet(silent) : ~Terminated(y) /\ Len(y.calls) = 1
    /\ done.upstream.kind = "rejected"
    /\ Terminated(done)

\* C16: on every request handed to next - every pass-through and every
\* failed proxy request - none of the three CORS headers is set on the
\* response.
C16_NoCorsBeforeNext ==
    (done.state = "done" /\ done.nexts # <<>>) => CarriesNoCors(done.res)

C16_Witness ==
    /\ IsProxyRequest(done.req)
    /\ UpstreamAnswered(done, 403)
    /\ HandedError(done)
    /\ CarriesNoCors(done.res)

\* C17: a finished request has had exactly one terminal action, once - one
\* response ended by the middleware or one call of next, never both, never
\* two - and a request whose upstream call has not settled has had none.
C17_OneTerminalAction ==
    /\ done.state = "done" => done.res.ends + Len(done.nexts) = 1
    /\ \A x \in BagToSet(pending) \cup BagToSet(silent) :
           /\ x.res.ends + Len(x.nexts) = 0
           /\ x.upstream = NoResult
    /\ done.upstream.kind # "none" => Terminated(done)

C17_Witness ==
    /\ done.upstream.kind = "fulfilled"
    /\ done.res.ends = 1
    /\ done.nexts = <<>>
    /\ BagCardinality(pending) = 1

\* C18: the two hops compose to the identity on paths: for a GET on p
\* starting with /.auth/, the path q of the redirect target starts with
\* /auth/ (the same middleware takes the proxy branch for GET q) and the
\* upstream URL the proxy builds from q has the path p again.
C18_TwoHopsRestorePath ==
    IsRedirectRequest(done.req)
        => LET q   == PathOfUrl(RedirectTarget(AzureHost, done.req.url))
               hop == middleware([done.req EXCEPT !.url = q])
           IN  /\ done.res.headers["Location"] = Join(Https \o AzureHost \o q)
               /\ startsWith(q, <<"/", "a", "u", "t", "h", "/">>)
               /\ ~startsWith(q, <<"/", ".", "a", "u", "t", "h", "/">>)
               /\ PathOfUrl(UpstreamUrl(AzureHost, q)) = done.req.url
               /\ HasSession(done.req)
                      => /\ hop.state = "pending"
                         /\ Len(hop.calls) = 1
                         /\ hop.calls[1].url = Join(Https \o AzureHost \o done.req.url)
               /\ ~HasSession(done.req)
                      => /\ HandedError(hop)
                         /\ hop.nexts[1].err.code = 400

C18_Witness ==
    /\ done.req.method = "GET"
    /\ done.req.url = <<"/", ".", "a", "u", "t", "h", "/", "m", "e">>
    /\ done.req.cookies["AppServiceAuthSession"] = "s1"
    /\ done.res.headers["Location"] = "https://myapp.azurewebsites.net/auth/me"
    /\ middleware([done.req EXCEPT !.url = <<"/", "a", "u", "t", "h", "/", "m", "e">>]).calls[1].url
           = "https://myapp.azurewebsites.net/.auth/me"

====
